---- MODULE Spec2Model ----
(***************************************************************************)
(* Model of models/neucon_network.py (class NeuConNet): the coarse-to-fine *)
(* loop of forward, the pure expansion upsample, the target lookup         *)
(* get_target and the loss composer compute_loss.                         *)
(*                                                                         *)
(* Tensors are sequences of rows.  A voxel coordinate row is the tuple     *)
(* <<batch, x, y, z>> (column c of the source is position c + 1 here).     *)
(* Learned quantities that the claims do not look into (feature values,    *)
(* tsdf predictions) are carried as the coordinate row of the voxel they   *)
(* were computed for, so that every row remembers which voxel it belongs   *)
(* to.  Occupancy logits are small integers compared with THRESHOLDS.      *)
(*                                                                         *)
(* forward is followed step by step: pc is the place in the loop body      *)
(* ("build", "fusion", "heads", "loss", "threshold", "sample",             *)
(* "propagate"), "returned" after a return and "raised" after an           *)
(* IndexError.  loss records what the last loss computation did; hist      *)
(* keeps, for every layer that reached line 226, how many rows were        *)
(* back-projected, predicted, passed and kept.                             *)
(***************************************************************************)
EXTENDS Integers, Sequences, FiniteSets, TLC

VARIABLES cfg, inputs, pc, i, interval,
          pre_feat, pre_coords, up_feat, up_coords,
          volume, count, grid_mask, feat, r_coords,
          tsdf_target, occ_target, tsdf, occ,
          occupancy, num, outputs, loss_dict, loss, hist

vars == <<cfg, inputs, pc, i, interval, pre_feat, pre_coords, up_feat,
          up_coords, volume, count, grid_mask, feat, r_coords, tsdf_target,
          occ_target, tsdf, occ, occupancy, num, outputs, loss_dict, loss,
          hist>>

(* ----------------------------- bounds ---------------------------------- *)
\* largest number of coarsest-grid voxels per batch item
MaxGrid == 2
\* largest batch size
MaxBatch == 2
\* largest number of coarsest-grid voxels of a whole batch
MaxCoarse == 4
\* largest number of parents handed to a stand-alone upsample call
MaxN == 2
\* largest feature width handed to a stand-alone upsample call
MaxC == 2

(* --------------------------- row helpers ------------------------------- *)
\* Python's None, and a name not yet bound: no tensor is empty at a place
\* where the source tests it against None
None == <<>>

\* what a call that raised hands back
NoValue == [const |-> 0, terms |-> {"IndexError"}]

Pow2(e) == IF e = 0 THEN 1 ELSE IF e = 1 THEN 2 ELSE IF e = 2 THEN 4 ELSE 8

\* the positions lo..hi of m that hold True, ascending (halving keeps the
\* evaluation shallow on long tensors)
RECURSIVE NonZeroIn(_, _, _)
NonZeroIn(m, lo, hi) ==
    IF lo > hi THEN <<>>
    ELSE IF lo = hi THEN (IF m[lo] THEN <<lo>> ELSE <<>>)
    ELSE LET mid == (lo + hi) \div 2
         IN  NonZeroIn(m, lo, mid) \o NonZeroIn(m, mid + 1, hi)

\* torch.nonzero of a boolean vector: the positions holding True, ascending
NonZero(m) == NonZeroIn(m, 1, Len(m))

\* t[idx] for a sequence idx of positions
Gather(t, idx) == [k \in 1..Len(idx) |-> t[idx[k]]]

RECURSIVE SumIn(_, _, _)
SumIn(t, lo, hi) ==
    IF lo > hi THEN 0
    ELSE IF lo = hi THEN t[lo]
    ELSE LET mid == (lo + hi) \div 2
         IN  SumIn(t, lo, mid) + SumIn(t, mid + 1, hi)

\* tensor.sum() of an integer vector
SumSeq(t) == SumIn(t, 1, Len(t))

CountTrue(m) == Len(NonZero(m))

(* ------------------------------ upsample ------------------------------- *)
\* pos_list of upsample: the columns (0-based, as in the source) that child
\* j + 1 shifts by interval; child 0 shifts none
pos_list == <<{1}, {2}, {3}, {1, 2}, {1, 3}, {2, 3}, {1, 2, 3}>>

\* up_coords[:, j, cols] += interval  for one parent row
ShiftRow(row, cols, d) ==
    [c \in 1..Len(row) |-> IF (c - 1) \in cols THEN row[c] + d ELSE row[c]]

\* mutant of ChildRow: the += loop starts at replica 0 instead of replica 1
ChildRowFromZero(row, j, d) ==
    IF j = 7 THEN row ELSE ShiftRow(row, pos_list[j + 1], d)

\* mutant of ChildRow: the fifth column list repeats the fourth
ChildRowDup(row, j, d) ==
    IF j = 0 THEN row
    ELSE ShiftRow(row, IF j = 5 THEN pos_list[4] ELSE pos_list[j], d)

\* row j (0..7) of the 8 replicas of one parent after the += loop
ChildRow(row, j, d) ==
    IF j = 0 THEN row ELSE ShiftRow(row, pos_list[j], d)

\* pre_feat.unsqueeze(1).expand(-1, num, -1).contiguous().view(-1, c)
UpsampleFeat(pf, numc) ==
    [k \in 1..(Len(pf) * numc) |-> pf[((k - 1) \div numc) + 1]]

\* pre_coords.unsqueeze(1).repeat(1, num, 1), the += loop, .view(-1, 4)
UpsampleCoords(pcs, d, numc) ==
    [k \in 1..(Len(pcs) * numc) |->
        ChildRow(pcs[((k - 1) \div numc) + 1], (k - 1) % numc, d)]

\* mutant of upsample: one replica too few (num - 1 where num is meant)
upsampleSeven(pf, pcs, d) == << UpsampleFeat(pf, 7), UpsampleCoords(pcs, d, 7) >>

\* upsample(pre_feat, pre_coords, interval, num=8): (up_feat, up_coords)
upsample(pf, pcs, d) == << UpsampleFeat(pf, 8), UpsampleCoords(pcs, d, 8) >>

(* ------------------- collaborators outside this file ------------------- *)
\* ops.generate_grids.generate_grid(n_vox, interval)[0]: the lattice points
\* of the extent n_vox at stride interval, x slowest, as <<x, y, z>> rows
GenerateGrid(n_vox, d) ==
    LET nx == (n_vox[1] + d - 1) \div d
        ny == (n_vox[2] + d - 1) \div d
        nz == (n_vox[3] + d - 1) \div d
    IN  [k \in 1..(nx * ny * nz) |->
            << ((k - 1) \div (ny * nz)) * d,
               (((k - 1) \div nz) % ny) * d,
               ((k - 1) % nz) * d >>]

\* ops.back_project.back_project: the number of views that see a voxel, a
\* function of the voxel's coordinates and of the cameras (the pattern vis)
Count(row, vis) ==
    CASE vis = "all"  -> 2
      [] vis = "none" -> 0
      [] vis = "x0"   -> IF row[2] = 0 THEN 1 ELSE 3
      [] vis = "xpos" -> IF row[2] = 0 THEN 2 ELSE 1
      [] OTHER        -> IF row[1] = 0 THEN 2 ELSE 0

\* inputs['occ_list'][scale][b, x, y, z]: a dense boolean volume, given by
\* the pattern pat
OccVol(pat, row) ==
    CASE pat = "all"   -> TRUE
      [] pat = "none"  -> FALSE
      [] pat = "xeven" -> row[2] % 2 = 0
      [] OTHER         -> row[1] = 0

\* inputs['tsdf_list'][scale][b, x, y, z]: a dense volume, given by the
\* pattern pat
TsdfVol(pat, row) ==
    CASE pat = "zero"  -> 0
      [] pat = "neg"   -> -1
      [] pat = "one"   -> 1
      [] OTHER         -> IF row[2] % 2 = 0 THEN 0 ELSE -1

\* utils.apply_log_transform: sign(x) * log(|x| + 1), kept symbolically as
\* the pair of its sign and of |x|
ApplyLog(x) ==
    [sgn |-> IF x > 0 THEN 1 ELSE IF x < 0 THEN -1 ELSE 0,
     mag |-> IF x < 0 THEN -x ELSE x]

\* sign(x) * log(|x| + 1) >= 0
LogGe0(t) == t.sgn >= 0

\* sign(x) * log(|x| + 1) is an integer only where log(|x| + 1) = 0
LogIsIndex(t) == t.mag = 0

(* ------------------------------ get_target ----------------------------- *)
\* coords_down[:, 1:] = coords[:, 1:] // 2 ** scale
CoordsDown(row, scale) ==
    << row[1], row[2] \div Pow2(scale), row[3] \div Pow2(scale),
       row[4] \div Pow2(scale) >>

GetTsdfTarget(coords, inp, scale) ==
    [k \in 1..Len(coords) |-> TsdfVol(inp.tsdf_pat, CoordsDown(coords[k], scale))]

GetOccTarget(coords, inp, scale) ==
    [k \in 1..Len(coords) |-> OccVol(inp.occ_pat, CoordsDown(coords[k], scale))]

(* ----------------------------- compute_loss ---------------------------- *)
\* number of surface points in each batch item's anchor / residual table
TableLen == 2

\* inputs['plane_anchors'][b][t] and inputs['residual'][b][t], b and t 0-based:
\* the anchor classes are 0..6 (the 7 logits of plane_class), the tables of
\* different batch items differ
AnchorsGt(bs) ==
    [b \in 1..bs |-> [t \in 1..TableLen |-> (TableLen * (b - 1) + (t - 1)) % 7]]

ResidualGt(bs) == [b \in 1..bs |-> [t \in 1..TableLen |-> << b - 1, t - 1, 0 >>]]

\* torch.nonzero(r_coords[:, -1] == b).squeeze(1), as 1-based positions
BatchInd(rc, b) == NonZero([k \in 1..Len(rc) |-> rc[k][4] = b])

\* the loop "for b in range(bs)" of the plane ground-truth extraction, from
\* batch item b on: tt3 are the filtered, transformed tsdf targets
RECURSIVE PlaneLoop(_, _, _, _, _, _)
PlaneLoop(b, rc, tt3, agt, rgt, acc) ==
    IF b >= Len(agt) THEN acc
    ELSE LET batch_ind == BatchInd(rc, b)
             inRange == \A k \in 1..Len(batch_ind) : batch_ind[k] <= Len(tt3)
             isIndex == \A k \in 1..Len(batch_ind) :
                            /\ LogIsIndex(tt3[batch_ind[k]])
                            /\ tt3[batch_ind[k]].mag < Len(agt[b + 1])
             hit == {batch_ind[k] : k \in 1..Len(batch_ind)}
         IN  IF ~inRange \/ ~isIndex
             THEN [acc EXCEPT !.raised = TRUE]
             ELSE PlaneLoop(b + 1, rc, tt3, agt, rgt,
                    [raised |-> FALSE,
                     anchors_target |->
                        [k \in 1..Len(tt3) |->
                            IF k \in hit THEN agt[b + 1][tt3[k].mag + 1]
                            ELSE acc.anchors_target[k]],
                     residual_target |->
                        [k \in 1..Len(tt3) |->
                            IF k \in hit THEN rgt[b + 1][tt3[k].mag + 1]
                            ELSE acc.residual_target[k]]])

\* mutant of ZeroLoss: the zero weight of the guard's sum is dropped
ZeroLossUnweighted(occ1) == SumSeq(occ1)

\* torch.Tensor([0.0]).cuda()[0] * occ.sum()
ZeroLoss(occ1) == 0 * SumSeq(occ1)

\* the value compute_loss hands back: a constant and the loss terms added
LossValue(c, terms) == [const |-> c, terms |-> terms]

NoPlane == [raised |-> FALSE, anchors_target |-> <<>>, residual_target |-> <<>>]

\* compute_loss(tsdf, occ, tsdf_target, occ_target, class_logits, residuals,
\*              anchors_gt, residual_gt, r_coords, mask=mask)
\* class_logits and residuals have one row per row of tsdf.  The result
\* records what the call did: status "raise" is an IndexError.
compute_loss(tsdf_, occ_, tsdf_target_, occ_target_, agt, rgt, rc, mask) ==
    IF \/ Len(mask) # Len(tsdf_) \/ Len(mask) # Len(occ_)
       \/ Len(mask) # Len(tsdf_target_) \/ Len(mask) # Len(occ_target_)
    THEN [status |-> "raise", at |-> "mask", value |-> NoValue, n_all |-> 0,
          n_p |-> 0, w_for_1 |-> None, rows1 |-> <<>>, rows2 |-> <<>>,
          rows3 |-> <<>>, tt3 |-> <<>>, plane |-> NoPlane]
    ELSE
    LET rows1 == NonZero(mask)
        occ1  == Gather(occ_, rows1)
        tt1   == Gather(tsdf_target_, rows1)
        ot1   == Gather(occ_target_, rows1)
        n_all == Len(ot1)
        n_p   == CountTrue(ot1)
    IN  IF n_p = 0
        THEN [status |-> "zero", at |-> "guard", value |-> LossValue(ZeroLoss(occ1), {}),
              n_all |-> n_all, n_p |-> n_p, w_for_1 |-> None, rows1 |-> rows1,
              rows2 |-> <<>>, rows3 |-> <<>>, tt3 |-> <<>>, plane |-> NoPlane]
        ELSE
        LET w_for_1 == << n_all - n_p, n_p >>
            sel2  == NonZero(ot1)
            rows2 == Gather(rows1, sel2)
            tt2   == [k \in 1..Len(sel2) |-> ApplyLog(tt1[sel2[k]])]
            valid == NonZero([k \in 1..Len(tt2) |-> LogGe0(tt2[k])])
        IN  IF Len(valid) # 0
            THEN LET tt3   == Gather(tt2, valid)
                     rows3 == Gather(rows2, valid)
                     zero  == [raised |-> FALSE,
                               anchors_target |-> [k \in 1..Len(tt3) |-> 0],
                               residual_target |-> [k \in 1..Len(tt3) |-> <<0, 0, 0>>]]
                     plane == PlaneLoop(0, rc, tt3, agt, rgt, zero)
                 IN  [status |-> IF plane.raised THEN "raise" ELSE "ok",
                      at |-> "plane",
                      value |-> IF plane.raised THEN NoValue
                                ELSE LossValue(0, {"occ", "tsdf", "class", "residual"}),
                      n_all |-> n_all, n_p |-> n_p, w_for_1 |-> w_for_1,
                      rows1 |-> rows1, rows2 |-> rows2, rows3 |-> rows3,
                      tt3 |-> tt3, plane |-> plane]
            ELSE [status |-> "ok", at |-> "noplane",
                  value |-> LossValue(0, {"occ", "tsdf"}),
                  n_all |-> n_all, n_p |-> n_p, w_for_1 |-> w_for_1,
                  rows1 |-> rows1, rows2 |-> rows2, rows3 |-> <<>>,
                  tt3 |-> <<>>, plane |-> NoPlane]

(* ------------------------- configuration, inputs ----------------------- *)
\* cfg.N_LAYER, with cfg.THRESHOLDS holding one threshold per layer
LayerChoices == {1, 2, 3}

\* cfg.TRAIN_NUM_SAMPLE: per-layer caps, small ones that sampling reaches and
\* large ones that it never does
SampleChoices == {<<1, 2, 4>>, <<1000, 1000, 1000>>}

\* the ground-truth volumes a fragment comes with: occupancy and tsdf pattern
GtPairs == {<<"all", "zero">>, <<"none", "zero">>, <<"all", "neg">>,
            <<"xeven", "zero">>, <<"all", "one">>, <<"b0", "mixed">>}

VisPats == {"all", "x0", "xpos", "b0"}
OccPats == {"all", "none", "xeven", "b0"}
TsdfPats == {"zero", "neg", "one", "mixed"}

\* what the occupancy head may predict for the rows of a layer
PredPats == {"all", "none", "first"}

\* what the fusion module may hand back for the voxels it was given
FusionKinds == {"same", "drop", "grow", "swap"}

\* self.n_scales = len(cfg.THRESHOLDS) - 1
n_scales == Len(cfg.THRESHOLDS) - 1

\* bs = features[0][0].shape[0]
bs == inputs.bs

\* cfg.N_VOX: G coarsest cells along x, one along y and z
N_VOX == << inputs.G * Pow2(n_scales), Pow2(n_scales), Pow2(n_scales) >>

\* self.occ_preds[i](feat): one logit per row, here per prediction pattern
OccPred(pat, coords) ==
    [k \in 1..Len(coords) |->
        CASE pat = "all"  -> 2
          [] pat = "none" -> -1
          [] OTHER        -> IF k = 1 THEN 2 ELSE -1]

\* a voxel of the accumulated history that lies outside the current lattice
HistoryVoxel(row) == << row[1], row[2] + 16, row[3], row[4] >>

\* the coordinate set self.gru_fusion returns for the set it was given
FusionCoords(kind, coords) ==
    CASE kind = "same" -> coords
      [] kind = "drop" -> SubSeq(coords, 1, IF Len(coords) > 1 THEN Len(coords) - 1 ELSE 1)
      [] kind = "grow" -> Append(coords, HistoryVoxel(coords[Len(coords)]))
      [] OTHER         -> [k \in 1..Len(coords) |-> coords[Len(coords) + 1 - k]]

\* r_coords: the aligned-camera coordinates of a row, batch index last
RCoords(coords) ==
    [k \in 1..Len(coords) |-> << coords[k][2], coords[k][3], coords[k][4], coords[k][1] >>]

(* ------------------------------- forward ------------------------------- *)
Empty == <<>>

\* loss = torch.Tensor(np.array([0]))[0]
SkippedLoss ==
    [status |-> "skipped", at |-> "forward", value |-> LossValue(0, {}),
     n_all |-> 0, n_p |-> 0, w_for_1 |-> None, rows1 |-> <<>>, rows2 |-> <<>>,
     rows3 |-> <<>>, tt3 |-> <<>>, plane |-> NoPlane]

\* the configurations and fragments the runs start from: the flags are
\* crossed where the code lets them interact, and left at a default where a
\* flag is not read (targets and plane tables are read only by the loss,
\* the caps only in training, the fusion history only with fusion on)
BigCap == <<1000, 1000, 1000>>

LossOn(c, n) == c.training /\ n.has_planes /\ n.has_targets

DefaultGt(n) == n.occ_pat = "all" /\ n.tsdf_pat = "zero"

Scenario(c, n) ==
    /\ Len(c.THRESHOLDS) = c.N_LAYER
    /\ (c.FULL => c.FUSION_ON)
    /\ (~c.training => c.TRAIN_NUM_SAMPLE = BigCap /\ ~n.has_planes)
    /\ (~c.FUSION_ON => n.has_targets /\ n.history = "same")
    /\ (~n.has_planes => n.has_targets)
    /\ (~LossOn(c, n) => DefaultGt(n))
    /\ (c.TRAIN_NUM_SAMPLE # BigCap => DefaultGt(n))
    /\ (n.history # "same" => DefaultGt(n) /\ c.TRAIN_NUM_SAMPLE = BigCap)
    /\ (n.vis = "b0" => n.bs > 1)
    /\ n.bs * n.G <= MaxCoarse
    /\ << n.occ_pat, n.tsdf_pat >> \in GtPairs

InitForward ==
    /\ cfg \in [N_LAYER : LayerChoices, THRESHOLDS : {<<0>>, <<0, 0>>, <<0, 0, 0>>},
                FUSION_ON : BOOLEAN, FULL : BOOLEAN, training : BOOLEAN,
                TRAIN_NUM_SAMPLE : SampleChoices]
    /\ inputs \in [bs : 1..MaxBatch, G : 1..MaxGrid, vis : VisPats,
                   occ_pat : OccPats, tsdf_pat : TsdfPats,
                   has_planes : BOOLEAN, has_targets : BOOLEAN,
                   history : FusionKinds]
    /\ Scenario(cfg, inputs)
    /\ pc = "build"
    /\ i = 0
    /\ interval = 0
    /\ pre_feat = None /\ pre_coords = None
    /\ up_feat = Empty /\ up_coords = Empty
    /\ volume = Empty /\ count = Empty /\ grid_mask = Empty
    /\ feat = Empty /\ r_coords = Empty
    /\ tsdf_target = None /\ occ_target = None
    /\ tsdf = Empty /\ occ = Empty
    /\ occupancy = Empty /\ num = 0
    /\ outputs = Empty
    /\ loss_dict = Empty
    /\ loss = [SkippedLoss EXCEPT !.status = "none"]
    /\ hist = Empty

\* the layer-0 coordinates: the grid repeated for every batch item, the
\* batch index in front
GridCoords(grid, nb) ==
    [k \in 1..(nb * Len(grid)) |->
        LET g == grid[((k - 1) % Len(grid)) + 1]
        IN  << (k - 1) \div Len(grid), g[1], g[2], g[3] >>]

\* lines 139-184: new coordinates, back projection, target lookup, aligned
\* coordinates and the sparse convolution of layer i
BuildLayer ==
    /\ pc = "build"
    /\ LET d == Pow2(n_scales - i)
           scale == n_scales - i
           up == IF i = 0 THEN << up_feat, GridCoords(GenerateGrid(N_VOX, d), bs) >>
                 ELSE upsample(pre_feat, pre_coords, d)
           uc == up[2]
       IN  /\ interval' = d
           /\ up_coords' = uc
           /\ up_feat' = up[1]
           /\ volume' = uc
           /\ count' = [k \in 1..Len(uc) |-> Count(uc[k], inputs.vis)]
           /\ grid_mask' = [k \in 1..Len(uc) |-> Count(uc[k], inputs.vis) > 1]
           /\ IF ~cfg.FUSION_ON
              THEN /\ tsdf_target' = GetTsdfTarget(uc, inputs, scale)
                   /\ occ_target' = GetOccTarget(uc, inputs, scale)
              ELSE UNCHANGED <<tsdf_target, occ_target>>
           /\ r_coords' = RCoords(uc)
           /\ feat' = uc
    /\ pc' = IF cfg.FUSION_ON THEN "fusion" ELSE "heads"
    /\ UNCHANGED <<hist, cfg, inputs, i, pre_feat, pre_coords, tsdf, occ, occupancy,
                   num, outputs, loss_dict, loss>>

\* lines 187-190: the fusion module replaces coordinates, features and
\* targets; the visibility mask is rebuilt only in FULL mode
GruFusion ==
    /\ pc = "fusion"
    /\ LET uc == FusionCoords(inputs.history, up_coords)
             scale == n_scales - i
         IN  /\ up_coords' = uc
             /\ r_coords' = RCoords(uc)
             /\ feat' = uc
             /\ tsdf_target' = IF inputs.has_targets
                               THEN GetTsdfTarget(uc, inputs, scale) ELSE None
             /\ occ_target' = IF inputs.has_targets
                              THEN GetOccTarget(uc, inputs, scale) ELSE None
             /\ grid_mask' = IF cfg.FULL THEN [k \in 1..Len(uc) |-> TRUE]
                             ELSE grid_mask
    /\ pc' = "heads"
    /\ UNCHANGED <<hist, cfg, inputs, i, interval, pre_feat, pre_coords, up_feat,
                   volume, count, tsdf, occ, occupancy, num, outputs,
                   loss_dict, loss>>

\* lines 192-198: the prediction heads, one row per row of feat
Heads ==
    /\ pc = "heads"
    /\ \E pat \in PredPats : occ' = OccPred(pat, feat)
    /\ tsdf' = feat
    /\ pc' = "loss"
    /\ UNCHANGED <<hist, cfg, inputs, i, interval, pre_feat, pre_coords, up_feat,
                   up_coords, volume, count, grid_mask, feat, r_coords,
                   tsdf_target, occ_target, occupancy, num, outputs,
                   loss_dict, loss>>

\* lines 201-207: the loss of layer i and its entry in loss_dict
Loss ==
    /\ pc = "loss"
    /\ LET l == IF tsdf_target # None /\ inputs.has_planes /\ cfg.training
                THEN compute_loss(tsdf, occ, tsdf_target, occ_target,
                                  AnchorsGt(bs), ResidualGt(bs), r_coords, grid_mask)
                ELSE SkippedLoss
       IN  /\ loss' = l
           /\ IF l.status = "raise"
              THEN /\ pc' = "raised"
                   /\ UNCHANGED loss_dict
              ELSE /\ pc' = "threshold"
                   /\ loss_dict' = [j \in (DOMAIN loss_dict) \cup {i} |->
                                        IF j = i THEN l.value ELSE loss_dict[j]]
    /\ UNCHANGED <<hist, cfg, inputs, i, interval, pre_feat, pre_coords, up_feat,
                   up_coords, volume, count, grid_mask, feat, r_coords,
                   tsdf_target, occ_target, tsdf, occ, occupancy, num, outputs>>

\* mutant of ApplyMask: the mask is not applied to the selection
ApplyMaskIgnored(occ_b, mask) == occ_b

\* occupancy[grid_mask == False] = False
ApplyMask(occ_b, mask) == [k \in 1..Len(occ_b) |-> occ_b[k] /\ mask[k]]

\* lines 210-217: threshold the logits, drop the voxels the mask excludes,
\* stop when nothing is left
Threshold ==
    /\ pc = "threshold"
    /\ IF Len(grid_mask) # Len(occ)
       THEN /\ pc' = "raised"
            /\ UNCHANGED <<occupancy, num>>
       ELSE LET o == ApplyMask([k \in 1..Len(occ) |-> occ[k] > cfg.THRESHOLDS[i + 1]],
                               grid_mask)
            IN  /\ occupancy' = o
                /\ num' = CountTrue(o)
                /\ pc' = IF CountTrue(o) = 0 THEN "returned" ELSE "sample"
    /\ UNCHANGED <<hist, cfg, inputs, i, interval, pre_feat, pre_coords, up_feat,
                   up_coords, volume, count, grid_mask, feat, r_coords,
                   tsdf_target, occ_target, tsdf, occ, outputs, loss_dict, loss>>

\* the draws np.random.choice(n, k, replace=False) can return, as sets of
\* 0-based positions: every k-subset for small n, the cyclic runs otherwise
Choices(n, k) ==
    IF n <= 4 THEN {c \in SUBSET (0..(n - 1)) : Cardinality(c) = k}
    ELSE {{(s + j) % n : j \in 0..(k - 1)} : s \in {0, 1, n - 1}}

\* mutant of ClearChoice: the draw indexes occupancy itself, not the list of
\* selected positions
ClearChoiceDirect(occ_b, choice) ==
    [k \in 1..Len(occ_b) |-> occ_b[k] /\ (k - 1) \notin choice]

\* ind = torch.nonzero(occupancy); occupancy[ind[choice]] = False
ClearChoice(occ_b, choice) ==
    LET ind == NonZero(occ_b)
        hit == {ind[c + 1] : c \in choice}
    IN  [k \in 1..Len(occ_b) |-> occ_b[k] /\ k \notin hit]

\* self.training and num > self.cfg.TRAIN_NUM_SAMPLE[i] * bs
NeedsSample(n) == cfg.training /\ n > cfg.TRAIN_NUM_SAMPLE[i + 1] * bs

\* lines 220-224: the training-time cap on the number of selected voxels
Sample ==
    /\ pc = "sample"
    /\ IF NeedsSample(num)
       THEN \E choice \in Choices(num, num - cfg.TRAIN_NUM_SAMPLE[i + 1] * bs) :
                occupancy' = ClearChoice(occupancy, choice)
       ELSE UNCHANGED occupancy
    /\ pc' = "propagate"
    /\ UNCHANGED <<hist, cfg, inputs, i, interval, pre_feat, pre_coords, up_feat,
                   up_coords, volume, count, grid_mask, feat, r_coords,
                   tsdf_target, occ_target, tsdf, occ, num, outputs,
                   loss_dict, loss>>

\* the loop of lines 227-231 finds a row for every batch item
EveryBatchHasRows(coords) ==
    \A b \in 0..(bs - 1) : \E k \in 1..Len(coords) : coords[k][1] = b

\* i == self.cfg.N_LAYER - 1
IsLastLayer(layer) == layer = cfg.N_LAYER - 1

\* lines 226-243: compact the survivors, stop when a batch item has none,
\* write the outputs at the last layer, go on to the next layer
Propagate ==
    /\ pc = "propagate"
    /\ LET sel == NonZero(occupancy)
           pcs == Gather(up_coords, sel)
       IN  /\ pre_coords' = pcs
           /\ hist' = Append(hist, [built |-> Len(volume), rows |-> Len(occ),
                                    passed |-> num, kept |-> Len(sel)])
           /\ IF ~EveryBatchHasRows(pcs)
              THEN /\ pc' = "returned"
                   /\ UNCHANGED <<i, pre_feat, outputs>>
              ELSE /\ pre_feat' = Gather(feat, sel)
                   /\ outputs' = IF IsLastLayer(i)
                                 THEN [key \in {"coords", "tsdf"} |->
                                         IF key = "coords" THEN pcs ELSE Gather(tsdf, sel)]
                                 ELSE outputs
                   /\ i' = i + 1
                   /\ pc' = IF i + 1 < cfg.N_LAYER THEN "build" ELSE "returned"
    /\ UNCHANGED <<cfg, inputs, interval, up_feat, up_coords, volume, count,
                   grid_mask, feat, r_coords, tsdf_target, occ_target, tsdf,
                   occ, occupancy, num, loss_dict, loss>>

Next ==
    \/ BuildLayer
    \/ GruFusion
    \/ Heads
    \/ Loss
    \/ Threshold
    \/ Sample
    \/ Propagate

Spec == InitForward /\ [][Next]_vars

(* ---------------------- upsample called on its own --------------------- *)
\* parent coordinates and feature entries the stand-alone calls draw from
CoordPool == {<<0, 0, 0, 0>>, <<1, 4, 0, 8>>, <<0, 8, 4, 4>>}

FeatPool == {0, 1}

IntervalPool == {1, 2, 4}

SeqsOfLen(S, n) == [1..n -> S]

InitUpsample ==
    /\ \E n \in 0..MaxN, c \in 1..MaxC :
         /\ pre_coords \in SeqsOfLen(CoordPool, n)
         /\ pre_feat \in SeqsOfLen(SeqsOfLen(FeatPool, c), n)
    /\ interval \in IntervalPool
    /\ pc = "call"
    /\ up_feat = Empty /\ up_coords = Empty
    /\ cfg = [N_LAYER |-> 1, THRESHOLDS |-> <<0>>, FUSION_ON |-> FALSE,
              FULL |-> FALSE, training |-> FALSE, TRAIN_NUM_SAMPLE |-> BigCap]
    /\ inputs = [bs |-> 1, G |-> 1, vis |-> "all", occ_pat |-> "all",
                 tsdf_pat |-> "zero", has_planes |-> FALSE,
                 has_targets |-> TRUE, history |-> "same"]
    /\ i = 0
    /\ volume = Empty /\ count = Empty /\ grid_mask = Empty
    /\ feat = Empty /\ r_coords = Empty
    /\ tsdf_target = None /\ occ_target = None
    /\ tsdf = Empty /\ occ = Empty
    /\ occupancy = Empty /\ num = 0
    /\ outputs = Empty
    /\ loss_dict = Empty
    /\ loss = [SkippedLoss EXCEPT !.status = "none"]
    /\ hist = Empty

\* up_feat, up_coords = self.upsample(pre_feat, pre_coords, interval)
UpsampleCall ==
    /\ pc = "call"
    /\ LET up == upsample(pre_feat, pre_coords, interval)
       IN  /\ up_feat' = up[1]
           /\ up_coords' = up[2]
    /\ pc' = "upsampled"
    /\ UNCHANGED <<cfg, inputs, i, interval, pre_feat, pre_coords, volume,
                   count, grid_mask, feat, r_coords, tsdf_target, occ_target,
                   tsdf, occ, occupancy, num, outputs, loss_dict, loss, hist>>

NextUpsample == UpsampleCall

SpecUpsample == InitUpsample /\ [][NextUpsample]_vars

(* -------------------------------- claims ------------------------------- *)
\* C1: upsample returns exactly 8 * N feature rows of the parents' width C
\* and 8 * N coordinate rows of 4 columns, and row 8 * p (child 0 of parent
\* p) carries the coordinates of parent p unchanged.
UpsampleShapeLaw ==
    pc = "upsampled" =>
        /\ Len(up_feat) = 8 * Len(pre_feat)
        /\ Len(up_coords) = 8 * Len(pre_coords)
        /\ \A k \in 1..Len(up_feat) : Len(up_feat[k]) = Len(pre_feat[1])
        /\ \A k \in 1..Len(up_coords) : Len(up_coords[k]) = 4
        /\ \A p \in 1..Len(pre_coords) : up_coords[8 * (p - 1) + 1] = pre_coords[p]

UpsampleShapeWitness ==
    /\ pc = "upsampled"
    /\ Len(pre_feat) = 2
    /\ Len(pre_feat[1]) = 2
    /\ pre_coords[1] # pre_coords[2]
    /\ interval = 2
    /\ Len(up_coords) = 16

\* the axes (1 = x, 2 = y, 3 = z) on which child j of parent p lies exactly
\* interval above its parent
ShiftedAxes(p, j) ==
    {a \in 1..3 : up_coords[8 * (p - 1) + 1 + j][a + 1] = pre_coords[p][a + 1] + interval}

\* the axes on which child j of parent p has its parent's coordinate
KeptAxes(p, j) ==
    {a \in 1..3 : up_coords[8 * (p - 1) + 1 + j][a + 1] = pre_coords[p][a + 1]}

\* C2: children 1..7 of every parent keep the parent's batch index and lie
\* at the parent's coordinates plus interval on the axes of one non-empty
\* subset of {x, y, z} and nowhere else; every one of the 7 non-empty
\* subsets is used by exactly one child.
CoordinateCoverageLaw ==
    pc = "upsampled" =>
        \A p \in 1..Len(pre_coords) :
            /\ \A j \in 1..7 :
                 /\ up_coords[8 * (p - 1) + 1 + j][1] = pre_coords[p][1]
                 /\ ShiftedAxes(p, j) # {}
                 /\ ShiftedAxes(p, j) \cup KeptAxes(p, j) = 1..3
            /\ \A S \in (SUBSET (1..3)) \ {{}} :
                 Cardinality({j \in 1..7 : ShiftedAxes(p, j) = S}) = 1

CoordinateCoverageWitness ==
    /\ pc = "upsampled"
    /\ Len(pre_coords) = 2
    /\ pre_coords[2] = <<1, 4, 0, 8>>
    /\ interval = 4
    /\ up_coords[16] = <<1, 8, 4, 12>>

\* the voxels of the current layer that pass threshold and visibility, read
\* off the logits and the mask
NoVoxelPasses ==
    \A k \in 1..Len(occ) : ~(occ[k] > cfg.THRESHOLDS[i + 1] /\ grid_mask[k])

\* the cap of the current layer
Cap == cfg.TRAIN_NUM_SAMPLE[i + 1] * bs

\* C3: in training, when more voxels pass threshold and visibility than
\* TRAIN_NUM_SAMPLE[i] * batch_size, the sampling step leaves exactly that
\* many selected and selects nothing that was not selected before; in every
\* other case the sampling step leaves the selection as it is.
SamplingCapLaw ==
    [][pc = "sample" =>
          IF cfg.training /\ CountTrue(occupancy) > Cap
          THEN /\ CountTrue(occupancy') = Cap
               /\ Len(occupancy') = Len(occupancy)
               /\ \A k \in 1..Len(occupancy) : occupancy'[k] => occupancy[k]
          ELSE occupancy' = occupancy]_vars

SamplingCapWitness ==
    /\ pc = "propagate"
    /\ cfg.training
    /\ i = 1
    /\ bs = 2
    /\ num > Cap
    /\ CountTrue(occupancy) = Cap

\* the ground-truth occupancy volume is all-false (at every scale)
OccVolumeAllFalse == inputs.occ_pat = "none" /\ LossOn(cfg, inputs)

\* C4 as stated: with an all-false ground-truth occupancy the run never goes
\* past scale 0, and a run that returned wrote no coords/tsdf and has only
\* scale 0's entry in the loss dictionary.
EmptySceneStopsAtScale0 ==
    OccVolumeAllFalse =>
        /\ i > 0 => pc = "returned"
        /\ pc = "returned" => outputs = Empty /\ DOMAIN loss_dict = {0}

\* C4 as amended: with an all-false ground-truth occupancy, the step that
\* finds no voxel passing threshold and visibility at scale 0 ends the run
\* there, with no coords/tsdf written and a loss dictionary holding only
\* scale 0's entry, which is exactly 0.
EmptySceneHaltsOnPrediction ==
    [][(/\ pc = "threshold" /\ i = 0
        /\ OccVolumeAllFalse
        /\ Len(grid_mask) = Len(occ)
        /\ NoVoxelPasses)
       => /\ pc' = "returned"
          /\ i' = 0
          /\ outputs' = Empty
          /\ DOMAIN loss_dict' = {0}
          /\ loss_dict'[0] = LossValue(0, {})]_vars

EmptySceneWitness ==
    /\ pc = "returned"
    /\ i = 0
    /\ OccVolumeAllFalse
    /\ loss.status = "zero"
    /\ \E k \in 1..Len(occ) : occ[k] > cfg.THRESHOLDS[1]
    /\ num = 0
    /\ DOMAIN loss_dict = {0}

\* the tensors in the state are those the recorded loss was computed from
LossIsCurrent == pc \notin {"fusion", "heads", "loss"} /\ loss.status \notin {"none", "skipped"}

\* C5: when no voxel of layer i passes threshold and visibility, or a batch
\* item is left without a voxel, forward returns without raising, with no
\* loss entry for a later layer, and coords/tsdf are in outputs only after
\* all N_LAYER layers completed.
EmptyScaleEarlyHalt ==
    /\ (pc = "raised" /\ loss.status = "raise" /\ loss.at = "plane") => ~NoVoxelPasses
    /\ (pc = "returned" /\ i < cfg.N_LAYER) =>
          /\ DOMAIN loss_dict = 0..i
          /\ outputs = Empty
    /\ (outputs # Empty) => i = cfg.N_LAYER /\ EveryBatchHasRows(outputs["coords"])

\* C6: when no occupancy target is positive among the voxels the mask keeps,
\* compute_loss returns exactly 0 without raising: the class weight is not
\* evaluated and no tsdf or plane term is computed.
DegenerateBatchZero ==
    (/\ LossIsCurrent
     /\ Len(grid_mask) = Len(occ_target)
     /\ \A k \in 1..Len(occ_target) : grid_mask[k] => ~occ_target[k])
    => /\ loss.status = "zero"
       /\ loss.value = LossValue(0, {})
       /\ loss.w_for_1 = None
       /\ loss.rows2 = <<>> /\ loss.rows3 = <<>>
       /\ loss.plane = NoPlane

DegenerateBatchWitness ==
    /\ LossIsCurrent
    /\ loss.status = "zero"
    /\ loss.n_all > 0
    /\ \E k \in 1..Len(occ_target) : occ_target[k] /\ ~grid_mask[k]
    /\ \E k \in 1..Len(occ) : grid_mask[k] /\ occ[k] > 0

\* a run of 3 layers on one batch item that completed, every voxel seen by
\* at least 2 views, every voxel of every layer passing the threshold and no
\* cap hit
EndToEndCase ==
    /\ pc = "returned" /\ i = 3 /\ cfg.N_LAYER = 3
    /\ bs = 1
    /\ inputs.vis = "all"
    /\ Len(hist) = 3
    /\ \A l \in 1..3 : hist[l].passed = hist[l].rows /\ hist[l].kept = hist[l].passed

\* C7 as stated: in that case outputs['coords'] has 8^2 times as many rows
\* as voxels were selected at layer 0, and outputs['tsdf'] as many.
EndToEndCount ==
    EndToEndCase =>
        /\ Len(outputs["coords"]) = 64 * hist[1].kept
        /\ Len(outputs["tsdf"]) = 64 * hist[1].kept

\* C7 as amended: the same, when in addition the fusion module (if it is on)
\* hands back at every layer as many voxels as were back-projected.
EndToEndCountSameSize ==
    (EndToEndCase /\ \A l \in 1..3 : hist[l].rows = hist[l].built) =>
        /\ Len(outputs["coords"]) = 64 * hist[1].kept
        /\ Len(outputs["tsdf"]) = 64 * hist[1].kept

EndToEndWitness ==
    /\ EndToEndCase
    /\ \A l \in 1..3 : hist[l].rows = hist[l].built
    /\ hist[1].kept = 2
    /\ Len(outputs["coords"]) = 128

\* C8: every row that reaches the plane lookup gets the anchor class and the
\* residual of its own batch item's tables, at the index given by its own
\* integer tsdf target.
PlaneLookupOwnBatch ==
    (LossIsCurrent /\ loss.at = "plane") =>
        /\ loss.status = "ok"
        /\ \A k \in 1..Len(loss.rows3) :
             LET row == loss.rows3[k]
                 b == up_coords[row][1]
                 t == tsdf_target[row]
             IN  /\ loss.plane.anchors_target[k] = AnchorsGt(bs)[b + 1][t + 1]
                 /\ loss.plane.residual_target[k] = ResidualGt(bs)[b + 1][t + 1]

\* C9: unless fusion runs in FULL mode, no voxel seen by at most one view is
\* selected, written to the outputs or counted in the loss, and masking a
\* masked selection again changes nothing.
VisibilityExclusion ==
    ~(cfg.FUSION_ON /\ cfg.FULL) =>
        /\ pc \in {"sample", "propagate"} =>
              /\ \A k \in 1..Len(occupancy) :
                    occupancy[k] => Count(up_coords[k], inputs.vis) > 1
              /\ ApplyMask(occupancy, grid_mask) = occupancy
        /\ outputs # Empty =>
              \A k \in 1..Len(outputs["coords"]) :
                    Count(outputs["coords"][k], inputs.vis) > 1
        /\ (LossIsCurrent /\ loss.status # "raise") =>
              \A k \in 1..Len(loss.rows1) :
                    Count(up_coords[loss.rows1[k]], inputs.vis) > 1

\* C10: where the loss is computed and the selection is made, coordinates,
\* features, predictions, targets and the visibility mask have one length
\* and row k of each belongs to the voxel of row k of the coordinates.
ParallelSequences ==
    pc \in {"loss", "threshold"} =>
        /\ Len(feat) = Len(up_coords)
        /\ Len(tsdf) = Len(up_coords)
        /\ Len(occ) = Len(up_coords)
        /\ Len(r_coords) = Len(up_coords)
        /\ Len(grid_mask) = Len(up_coords)
        /\ tsdf_target # None =>
              Len(tsdf_target) = Len(up_coords) /\ Len(occ_target) = Len(up_coords)
        /\ \A k \in 1..Len(up_coords) :
              /\ feat[k] = up_coords[k]
              /\ tsdf[k] = up_coords[k]
              /\ r_coords[k][4] = up_coords[k][1]
              /\ ~cfg.FULL => volume[k] = up_coords[k]
                              /\ grid_mask[k] = (Count(up_coords[k], inputs.vis) > 1)

====
